---------------------------- MODULE Spec2Model ----------------------------
(***************************************************************************)
(* Model of src/src/app/page.tsx: the ValentineForm component.             *)
(*                                                                         *)
(* State: the three useState cells (submitted, isLoading, error), the      *)
(* react-hook-form container created by useForm (field values, per-field   *)
(* errors, submitCount) and the insert calls that have been handed to the  *)
(* persistence client and have not settled yet.                            *)
(*                                                                         *)
(* One step is one browser task.  A submit event runs handleSubmit, the    *)
(* built-in validation, onSubmit up to its await and the commit of the     *)
(* state it set: all of these are microtasks of the task of the event, so  *)
(* no other event is dispatched in between.  The settlement of an insert   *)
(* runs the rest of onSubmit (try / catch / finally) and its commit; until *)
(* that commit the page still shows the disabled submit control, so no     *)
(* submit event falls between the two and they are one step.               *)
(* What the page shows is a function of the state (View, SubmitDisabled).  *)
(* The inputs are never disabled: fields change while a call is pending.   *)
(***************************************************************************)
EXTENDS Integers, Sequences, FiniteSets, TLC

VARIABLES
    formValues,   \* useForm: the current value of each of the eight fields
    errors,       \* useForm: formState.errors, the message shown under a field
    submitCount,  \* useForm: formState.submitCount, the submit events handled
    submitted,    \* useState(false)
    isLoading,    \* useState(false)
    error,        \* useState<string | null>(null)
    requests,     \* insert calls issued and not settled, oldest first
    writeCalls,   \* number of insert calls issued so far
    lastResult    \* outcome of the insert call that settled last

vars == <<formValues, errors, submitCount, submitted, isLoading, error,
          requests, writeCalls, lastResult>>

---------------------------------------------------------------------------
(* Bounds of the model *)

\* submit events handled in one behaviour
MaxSubmits == 2

\* longest email text entered
MaxEmailLen == 3

\* how far below 18 and above 120 the ages entered reach
AgeSpan == 20

---------------------------------------------------------------------------
(* The record and its rules *)

FieldNames == {"name", "age", "gender", "email", "interests", "lookingFor",
               "idealDate", "dealBreakers"}

RequiredFields == {"name", "age", "gender", "email", "interests", "lookingFor"}

\* error === null
Null == "null"

\* fieldState.error === undefined
NoError == "none"

MinAge == 18

MaxAge == 120

FailedMessage == "Failed to submit form. Please try again."

\* The text of the email input is a sequence of characters; the text of the
\* age input is empty (<< >>) or holds one number (<< n >>); the default
\* value of age is the number 0.
defaultValues ==
    [name |-> "", age |-> <<0>>, gender |-> "", email |-> << >>,
     interests |-> "", lookingFor |-> "", idealDate |-> "", dealBreakers |-> ""]

GenderOptions == {"", "male", "female", "non-binary", "other"}

Whitespace == {" "}

\* +inputValue: the number the age text holds
ToNumber(v) == v[1]

\* /^\S+@\S+$/i : one or more non-blanks, an "@", one or more non-blanks
EmailPattern(e) ==
    \E i \in 1..Len(e) :
        /\ e[i] = "@"
        /\ i > 1
        /\ i < Len(e)
        /\ \A j \in 1..Len(e) : e[j] \notin Whitespace

NameRule(v) == IF v = "" THEN "Name is required" ELSE NoError

AgeRuleExclusive(v) ==
    IF v = << >> THEN "Age is required"
    ELSE IF ToNumber(v) >= MaxAge THEN "Maximum age is 120"
    ELSE IF ToNumber(v) <= MinAge THEN "Minimum age is 18"
    ELSE NoError

AgeRuleRequiredOnly(v) == IF v = << >> THEN "Age is required" ELSE NoError

\* required is decided on the text being empty (0 is not empty), then max/min
AgeRule(v) ==
    IF v = << >> THEN "Age is required"
    ELSE IF ToNumber(v) > MaxAge THEN "Maximum age is 120"
    ELSE IF ToNumber(v) < MinAge THEN "Minimum age is 18"
    ELSE NoError

GenderRule(v) == IF v = "" THEN "Gender is required" ELSE NoError

EmailRule(v) ==
    IF v = << >> THEN "Email is required"
    ELSE IF ~EmailPattern(v) THEN "Invalid email address"
    ELSE NoError

InterestsRule(v) == IF v = "" THEN "This field is required" ELSE NoError

LookingForRule(v) == IF v = "" THEN "This field is required" ELSE NoError

\* the rules prop of each FormField; idealDate and dealBreakers have none
validateField(f, v) ==
    CASE f = "name" -> NameRule(v)
      [] f = "age" -> AgeRule(v)
      [] f = "gender" -> GenderRule(v)
      [] f = "email" -> EmailRule(v)
      [] f = "interests" -> InterestsRule(v)
      [] f = "lookingFor" -> LookingForRule(v)
      [] OTHER -> NoError

\* handleSubmit's built-in validation of every registered field
validateForm(values) == [f \in FieldNames |-> validateField(f, values[f])]

IsValidIgnoringEmail(errs) == \A f \in FieldNames \ {"email"} : errs[f] = NoError

\* handleSubmit calls onSubmit only when the validation left no error
IsValid(errs) == \A f \in FieldNames : errs[f] = NoError

---------------------------------------------------------------------------
(* What the component renders and what onSubmit sets *)

ViewAlwaysForm == "form"

\* if (submitted) return the thank-you view; otherwise the form
View == IF submitted THEN "thanks" ELSE "form"

SubmitNeverDisabled == FALSE

\* <button type="submit" disabled={isLoading}>
SubmitDisabled == isLoading

LoadingNotSet == isLoading

\* setIsLoading(true) at the start of onSubmit
LoadingOnSubmit == TRUE

ErrorKept == error

\* setError(null) at the start of onSubmit
ErrorOnSubmit == Null

PayloadWithoutOptional(data) == [data EXCEPT !.idealDate = "", !.dealBreakers = ""]

\* supabase.from('valentine_profiles').insert([data])
InsertPayload(data) == data

ErrorSwallowed == error

\* setError('Failed to submit form. Please try again.') in catch
ErrorOnFailure == FailedMessage

LoadingLeftOn == isLoading

\* setIsLoading(false) in finally
LoadingOnSettle == FALSE

Remove(s, i) == SubSeq(s, 1, i - 1) \o SubSeq(s, i + 1, Len(s))

---------------------------------------------------------------------------
(* Initial states *)

\* the component as mounted
Init ==
    /\ formValues = defaultValues
    /\ errors = [f \in FieldNames |-> NoError]
    /\ submitCount = 0
    /\ submitted = FALSE
    /\ isLoading = FALSE
    /\ error = Null
    /\ requests = << >>
    /\ writeCalls = 0
    /\ lastResult = "none"


\* the texts of at most MaxEmailLen characters over a letter, "@" and a blank
EmailTexts == UNION {[1..n -> {"a", "@", " "}] : n \in 0..MaxEmailLen}

\* forms the user can have filled in, with every rule passing or failing
RuleForms ==
    [name : {"", " ", "Al"},
     age : {<< >>, <<0>>, <<MinAge - 1>>, <<MinAge>>, <<MaxAge>>, <<MaxAge + 1>>},
     gender : GenderOptions,
     email : EmailTexts,
     interests : {"", "x"},
     lookingFor : {"", "y"},
     idealDate : {""},
     dealBreakers : {""}]

\* forms with every other field valid and any age around the two limits
AgeForms ==
    [name : {"Al"},
     age : {<<n>> : n \in (MinAge - AgeSpan)..(MaxAge + AgeSpan)},
     gender : {"other"},
     email : {<<"a", "@", "a">>},
     interests : {"x"},
     lookingFor : {"y"},
     idealDate : {"", "d"},
     dealBreakers : {""}]

\* the form as filled in by the user, before the first submit event
InitRules ==
    /\ formValues \in RuleForms \cup AgeForms
    /\ errors = [f \in FieldNames |-> NoError]
    /\ submitCount = 0
    /\ submitted = FALSE
    /\ isLoading = FALSE
    /\ error = Null
    /\ requests = << >>
    /\ writeCalls = 0
    /\ lastResult = "none"

---------------------------------------------------------------------------
(* Events *)

\* the values the user enters in the flow specification
Samples(f) ==
    CASE f = "name" -> {"", "Al"}
      [] f = "age" -> {<< >>, <<MinAge - 1>>, <<MinAge>>, <<MaxAge + 1>>}
      [] f = "gender" -> GenderOptions
      [] f = "email" -> {<< >>, <<"a">>, <<"a", "@", "a">>}
      [] f = "interests" -> {"", "x"}
      [] f = "lookingFor" -> {"", "y"}
      [] f = "idealDate" -> {"", "d"}
      [] f = "dealBreakers" -> {"", "b"}

\* field.onChange: the value is stored; once the form has been submitted the
\* field is validated again on every change (reValidateMode: onChange)
Change(f, v) ==
    /\ View = "form"
    /\ v # formValues[f]
    /\ formValues' = [formValues EXCEPT ![f] = v]
    /\ errors' = IF submitCount > 0
                 THEN [errors EXCEPT ![f] = validateField(f, v)]
                 ELSE errors
    /\ UNCHANGED <<submitCount, submitted, isLoading, error, requests,
                   writeCalls, lastResult>>

\* onSubmit up to its await: setIsLoading(true), setError(null), insert([data])
onSubmit(data) ==
    /\ isLoading' = LoadingOnSubmit
    /\ error' = ErrorOnSubmit
    /\ requests' = Append(requests, InsertPayload(data))
    /\ writeCalls' = writeCalls + 1
    /\ UNCHANGED <<submitted, lastResult>>

\* a submit event of the form: handleSubmit validates, then calls onSubmit
SubmitEvent ==
    /\ View = "form"
    /\ ~SubmitDisabled
    /\ submitCount < MaxSubmits
    /\ submitCount' = submitCount + 1
    /\ errors' = validateForm(formValues)
    /\ UNCHANGED formValues
    /\ IF IsValid(validateForm(formValues))
       THEN onSubmit(formValues)
       ELSE UNCHANGED <<submitted, isLoading, error, requests, writeCalls,
                        lastResult>>

\* the user activates the disabled submit control: no event is dispatched
SubmitBlocked ==
    /\ View = "form"
    /\ SubmitDisabled
    /\ UNCHANGED vars

\* the insert returns { error: null }: setSubmitted(true), then finally
InsertSucceeds(i) ==
    /\ i \in 1..Len(requests)
    /\ requests' = Remove(requests, i)
    /\ submitted' = TRUE
    /\ isLoading' = LoadingOnSettle
    /\ lastResult' = "ok"
    /\ UNCHANGED <<formValues, errors, submitCount, error, writeCalls>>

\* the insert returns an error object, which is thrown, or throws itself:
\* catch, then finally
InsertFails(i, how) ==
    /\ i \in 1..Len(requests)
    /\ requests' = Remove(requests, i)
    /\ error' = ErrorOnFailure
    /\ isLoading' = LoadingOnSettle
    /\ lastResult' = how
    /\ UNCHANGED <<formValues, errors, submitCount, submitted, writeCalls>>

Settle ==
    \E i \in 1..MaxSubmits :
        \/ InsertSucceeds(i)
        \/ \E how \in {"error", "throw"} : InsertFails(i, how)

Next ==
    \/ \E f \in FieldNames : \E v \in Samples(f) : Change(f, v)
    \/ SubmitEvent
    \/ SubmitBlocked
    \/ Settle

Spec == Init /\ [][Next]_vars

NextRules ==
    \/ SubmitEvent
    \/ SubmitBlocked
    \/ Settle

SpecRules == InitRules /\ [][NextRules]_vars

---------------------------------------------------------------------------
(* Vocabulary of the properties *)

\* every rule of the form, written out: the six required fields are not
\* empty, the age is between 18 and 120 and the email has the shape x@y
RecordPasses(r) ==
    /\ r.name # ""
    /\ r.gender # ""
    /\ r.interests # ""
    /\ r.lookingFor # ""
    /\ r.age # << >>
    /\ r.age[1] >= 18
    /\ r.age[1] <= 120
    /\ r.email # << >>
    /\ EmailPattern(r.email)

\* this step handles a submit event
IsSubmitStep == submitCount' = submitCount + 1

\* this step settles an insert call
IsSettleStep == Len(requests') < Len(requests)

Failures == {"error", "throw"}

---------------------------------------------------------------------------
(* C1: every insert call in flight carries a record that passes every rule *)
(* (required fields not empty, age in [18,120], email of the shape x@y),    *)
(* and a submit event on a form with a failing rule does not call onSubmit  *)
(* (isLoading and error keep their values) and issues no insert call.       *)
C1_OnlyValidRecordsWritten ==
    /\ [](\A i \in 1..Len(requests) : RecordPasses(requests[i]))
    /\ [][IsSubmitStep /\ ~RecordPasses(formValues)
            => /\ requests' = requests
               /\ writeCalls' = writeCalls
               /\ isLoading' = isLoading
               /\ error' = error]_vars

C1_Witness ==
    /\ Len(requests) = 1
    /\ RecordPasses(requests[1])
    /\ requests[1].age = <<18>>

(* C2: at no time are two insert calls outstanding, and while one is       *)
(* outstanding no step (a second activation of the submit control, on a    *)
(* valid form too) issues another.                                          *)
C2_OneWriteAtATime ==
    /\ [](Len(requests) <= 1)
    /\ [][requests # << >> => writeCalls' = writeCalls]_vars

C2_Witness ==
    /\ requests # << >>
    /\ SubmitDisabled
    /\ View = "form"
    /\ RecordPasses(formValues)
    /\ submitCount < MaxSubmits

(* C3: a submit event on a form whose fields are all valid issues exactly  *)
(* one insert call, whose payload is the record of the eight values in the *)
(* form at that moment; when an insert call returns without error the      *)
(* state becomes submitted = TRUE with isLoading = FALSE.                   *)
C3_ValidSubmitWritesOnce ==
    /\ [][IsSubmitStep /\ RecordPasses(formValues)
            => /\ requests' = Append(requests, formValues)
               /\ DOMAIN requests'[Len(requests')] = FieldNames
               /\ writeCalls' = writeCalls + 1]_vars
    /\ [][IsSettleStep /\ lastResult' = "ok"
            => /\ submitted'
               /\ ~isLoading'
               /\ View' = "thanks"]_vars

C3_Witness ==
    /\ submitted
    /\ ~isLoading
    /\ lastResult = "ok"
    /\ writeCalls = 1
    /\ formValues.idealDate = "d"

(* C4, as stated: when an insert call fails, submitted = FALSE, error is   *)
(* the generic message, isLoading = FALSE and every field has the value it *)
(* had when the submit was made (the payload of the failed call).          *)
C4_AsStated ==
    [][IsSettleStep /\ lastResult' \in Failures
         => /\ ~submitted'
            /\ error' = "Failed to submit form. Please try again."
            /\ ~isLoading'
            /\ formValues' = requests[1]]_vars

(* C4, amended: when an insert call fails, submitted = FALSE, error is the *)
(* generic message, isLoading = FALSE and the failure changes no field     *)
(* value and no field error: the form holds what the user has entered,     *)
(* which is what was submitted unless a field was changed meanwhile.       *)
C4_FailureKeepsForm ==
    [][IsSettleStep /\ lastResult' \in Failures
         => /\ ~submitted'
            /\ View' = "form"
            /\ error' = "Failed to submit form. Please try again."
            /\ ~isLoading'
            /\ formValues' = formValues
            /\ errors' = errors]_vars

C4_Witness ==
    /\ lastResult \in Failures
    /\ requests = << >>
    /\ ~submitted
    /\ error = "Failed to submit form. Please try again."
    /\ ~isLoading
    /\ RecordPasses(formValues)

(* C5: a submit event on the form holding its default values puts an error *)
(* on each of name, age, gender, email, interests and lookingFor, issues   *)
(* no insert call and leaves submitted, isLoading and error as they were.  *)
C5_DefaultFormRejected ==
    [][IsSubmitStep /\ formValues = defaultValues
         => /\ \A f \in RequiredFields : errors'[f] # NoError
            /\ writeCalls' = writeCalls
            /\ requests' = requests
            /\ submitted' = submitted
            /\ isLoading' = isLoading
            /\ error' = error]_vars

C5_Witness ==
    /\ submitCount = 1
    /\ formValues = defaultValues
    /\ \A f \in RequiredFields : errors[f] # NoError
    /\ writeCalls = 0
    /\ error = Null

(* C6: with every other field valid, a submit event with an age below 18   *)
(* is rejected with 'Minimum age is 18', with an age above 120 with        *)
(* 'Maximum age is 120', and with an age from 18 to 120, both included,    *)
(* leaves no error on age and issues the insert call.                       *)
C6_AgeRange ==
    [][(/\ IsSubmitStep
        /\ formValues.age # << >>
        /\ RecordPasses([formValues EXCEPT !.age = <<18>>]))
         => LET a == formValues.age[1] IN
            /\ a < 18 => /\ errors'["age"] = "Minimum age is 18"
                         /\ writeCalls' = writeCalls
            /\ a > 120 => /\ errors'["age"] = "Maximum age is 120"
                          /\ writeCalls' = writeCalls
            /\ (a >= 18 /\ a <= 120)
                 => /\ errors'["age"] = NoError
                    /\ writeCalls' = writeCalls + 1
                    /\ requests' = Append(requests, formValues)]_vars

C6_Witness ==
    /\ Len(requests) = 1
    /\ requests[1].age = <<120>>
    /\ errors["age"] = NoError

(* C7: no insert call is issued but by a submit event, one at most for     *)
(* each (the insert calls never outnumber the submit events), and after a  *)
(* failed insert call the form is shown with its submit control enabled    *)
(* and a submit event on a valid form issues a new insert call.            *)
C7_ManualRetryOnly ==
    /\ [](writeCalls <= submitCount)
    /\ [][writeCalls' # writeCalls
            => writeCalls' = writeCalls + 1 /\ IsSubmitStep]_vars
    /\ []((lastResult \in Failures /\ requests = << >> /\ ~submitted)
            => (View = "form" /\ ~SubmitDisabled))
    /\ [][(/\ lastResult \in Failures
           /\ requests = << >>
           /\ IsSubmitStep
           /\ RecordPasses(formValues))
            => (writeCalls' = writeCalls + 1 /\ Len(requests') = 1)]_vars

C7_Witness ==
    /\ lastResult \in Failures
    /\ Len(requests) = 1
    /\ writeCalls = 2
    /\ submitCount = 2

(* C8: once submitted is TRUE it stays TRUE, the thank-you view is shown   *)
(* instead of the form, and no step issues an insert call or changes a     *)
(* field.                                                                   *)
C8_SubmittedIsTerminal ==
    /\ [](submitted => View = "thanks")
    /\ [][submitted
            => /\ submitted'
               /\ writeCalls' = writeCalls
               /\ requests' = requests
               /\ formValues' = formValues]_vars

C8_Witness ==
    /\ submitted
    /\ View = "thanks"
    /\ submitCount < MaxSubmits

(* C9: isLoading is TRUE exactly when an insert call is outstanding, and   *)
(* the submit control is disabled exactly then.                             *)
C9_LoadingTracksWrite ==
    /\ isLoading <=> requests # << >>
    /\ SubmitDisabled <=> requests # << >>

C9_Witness ==
    /\ ~isLoading
    /\ requests = << >>
    /\ lastResult = "ok"
    /\ writeCalls = 2

(* C10: submitted = TRUE implies error = null, and error = null while an   *)
(* insert call is outstanding.                                              *)
C10_BannerExclusive ==
    /\ submitted => error = Null
    /\ requests # << >> => error = Null

C10_Witness ==
    /\ submitted
    /\ error = Null
    /\ submitCount = 2
    /\ writeCalls = 2

=============================================================================
